---- MODULE Spec2Model ----
\* Model of lit_gpt/datamodules/wizardlm_evol_instruct_v2.py: the formatter
\* format_dataset and the data module WizardLMEvolInstructV2
\* (construction, connect, prepare_data, setup).
EXTENDS Integers, Sequences, FiniteSets, TLC

VARIABLES
    hub,                              \* what the external dataset source holds, by split name
    include_multiturn_conversations,  \* module field, line 44
    tokenizer,                        \* module field, line 50
    batch_size,                       \* module field, line 53
    max_seq_length,                   \* module field, line 54
    train_dataset,                    \* module field, line 55
    test_dataset,                     \* module field, line 56
    prompt_style,                     \* module field, line 60
    num_workers,                      \* inherited field, overridden at line 62
    inherited,                        \* fields inherited from the base DataModule
    ctor,                             \* the arguments the constructor was called with
    last_op,                          \* the last thing that happened
    result,                           \* outcome of the most recent setup call
    repeat,                           \* how the most recent setup call relates to the one before
    connected_since,                  \* whether connect ran after the most recent setup call
    connect_args,                     \* the arguments of the most recent connect call, if any
    call_in,                          \* argument of a direct format_dataset call
    call_out                          \* outcome of a direct format_dataset call

vars == <<hub, include_multiturn_conversations, tokenizer, batch_size,
          max_seq_length, train_dataset, test_dataset, prompt_style,
          num_workers, inherited, ctor, last_op, result, repeat,
          connected_since, connect_args, call_in, call_out>>

moduleVars == <<hub, include_multiturn_conversations, tokenizer, batch_size,
                max_seq_length, train_dataset, test_dataset, prompt_style,
                num_workers, inherited, ctor, last_op, result, repeat,
                connected_since, connect_args>>

fields == <<include_multiturn_conversations, tokenizer, batch_size,
            max_seq_length, train_dataset, test_dataset, prompt_style,
            num_workers, inherited>>

-----------------------------------------------------------------------------
\* Bounds of the formatter's input space.

MaxRows == 2

MaxTotalTurns == 5

-----------------------------------------------------------------------------
\* Python values.

\* Optional[T]: None is the empty tuple, a present value x is <<x>>.
None == <<>>

Some(x) == <<x>>

SPLIT == <<"train">>

\* The role labels of WizardLMEvolInstructV2Conversations.
Roles == {"human", "gpt"}

Values == {"a", "b"}

Turns == [from : Roles, value : Values]

\* The row at position i of a dataset whose conversations are convs.
WizardLMEvolInstructV2Row(convs, i) ==
    [conversations |-> convs[i], idx |-> ToString(i)]

-----------------------------------------------------------------------------
\* format_dataset (lines 113-142).

\* The line printed for a role mismatch: the row's idx, the expected role as
\* the message words it, and the role that was read.
Warning(idx, expected, observed) ==
    [idx |-> idx, expected |-> expected, observed |-> observed]

\* format_entry with the output read from the last turn of the conversation
\* instead of the second.
format_entry_last_turn(entry) ==
    LET conversation == entry.conversations
    IN  IF Len(conversation) < 2
        THEN [raised |-> "IndexError", record |-> None, printed |-> <<>>]
        ELSE [raised |-> "none",
              record |-> Some([instruction |-> conversation[1].value,
                               input |-> "",
                               output |-> conversation[Len(conversation)].value]),
              printed |->
                  (IF conversation[1].from # "human"
                   THEN <<Warning(entry.idx, "user", conversation[1].from)>>
                   ELSE <<>>)
                  \o (IF conversation[2].from # "gpt"
                      THEN <<Warning(entry.idx, "assistant", conversation[2].from)>>
                      ELSE <<>>)]

\* format_entry with a role mismatch treated as an error.
format_entry_strict(entry) ==
    LET conversation == entry.conversations
    IN  IF Len(conversation) < 2
        THEN [raised |-> "IndexError", record |-> None, printed |-> <<>>]
        ELSE IF conversation[1].from # "human" \/ conversation[2].from # "gpt"
        THEN [raised |-> "ValueError", record |-> None, printed |-> <<>>]
        ELSE [raised |-> "none",
              record |-> Some([instruction |-> conversation[1].value,
                               input |-> "",
                               output |-> conversation[2].value]),
              printed |-> <<>>]

\* The body of the loop for one entry (lines 121-140). conversation[0] and
\* conversation[1] raise IndexError on a conversation that is too short; what
\* was printed before the raise stays printed.
format_entry(entry) ==
    LET conversation == entry.conversations
    IN  IF Len(conversation) < 1
        THEN [raised |-> "IndexError", record |-> None, printed |-> <<>>]
        ELSE
        LET human_message == conversation[1]
            printed1 == IF human_message.from # "human"
                        THEN <<Warning(entry.idx, "user", human_message.from)>>
                        ELSE <<>>
        IN  IF Len(conversation) < 2
            THEN [raised |-> "IndexError", record |-> None, printed |-> printed1]
            ELSE
            LET ai_message == conversation[2]
                printed2 == IF ai_message.from # "gpt"
                            THEN <<Warning(entry.idx, "assistant", ai_message.from)>>
                            ELSE <<>>
            IN  [raised |-> "none",
                 record |-> Some([instruction |-> human_message.value,
                                  input |-> "",
                                  output |-> ai_message.value]),
                 printed |-> printed1 \o printed2]

\* The for loop (lines 118-142) from entry i on, with the list built so far
\* and the lines printed so far. An exception ends the call without a return
\* value; the local list is dropped.
RECURSIVE format_loop(_, _, _, _)
format_loop(dataset, i, formatted, printed) ==
    IF i > Len(dataset)
    THEN [raised |-> "none", ret |-> Some(formatted), printed |-> printed]
    ELSE LET step == format_entry(dataset[i])
         IN  IF step.raised # "none"
             THEN [raised |-> step.raised, ret |-> None,
                   printed |-> printed \o step.printed]
             ELSE format_loop(dataset, i + 1,
                              Append(formatted, step.record[1]),
                              printed \o step.printed)

RoleLabelsMatch(entry) ==
    /\ Len(entry.conversations) >= 2
    /\ entry.conversations[1].from = "human"
    /\ entry.conversations[2].from = "gpt"

HasBothTurns(entry) == Len(entry.conversations) >= 2

IsSingleTurn(entry) == Len(entry.conversations) <= 2

\* format_dataset with corrupted rows left out of the result.
format_dataset_drop_corrupted(dataset, include_multi_turn_conversations) ==
    format_loop(SelectSeq(dataset, RoleLabelsMatch), 1, <<>>, <<>>)

\* format_dataset with rows that are too short skipped instead of raising.
format_dataset_skip_short(dataset, include_multi_turn_conversations) ==
    format_loop(SelectSeq(dataset, HasBothTurns), 1, <<>>, <<>>)

\* format_dataset with the flag honoured: conversations with later turns are
\* kept only when it is set.
format_dataset_flag_honoured(dataset, include_multi_turn_conversations) ==
    IF include_multi_turn_conversations
    THEN format_loop(dataset, 1, <<>>, <<>>)
    ELSE format_loop(SelectSeq(dataset, IsSingleTurn), 1, <<>>, <<>>)

format_dataset(dataset, include_multi_turn_conversations) ==
    format_loop(dataset, 1, <<>>, <<>>)

-----------------------------------------------------------------------------
\* Direct calls of format_dataset over every dataset within the bounds.

\* Row lengths: at most MaxRows rows holding at most MaxTotalTurns turns.
RECURSIVE SumSeq(_)
SumSeq(s) == IF s = <<>> THEN 0 ELSE Head(s) + SumSeq(Tail(s))

RowLengths ==
    {ls \in UNION {[1..k -> 0..MaxTotalTurns] : k \in 0..MaxRows} :
        SumSeq(ls) <= MaxTotalTurns}

\* The dataset whose row i holds the next ls[i] turns of the sequence flat.
DatasetOf(ls, flat) ==
    [i \in 1..Len(ls) |->
        WizardLMEvolInstructV2Row(
            [r \in 1..Len(ls) |->
                [j \in 1..ls[r] |-> flat[SumSeq(SubSeq(ls, 1, r - 1)) + j]]],
            i)]

NotCalled == [called |-> FALSE, flag |-> FALSE, raised |-> "none",
              ret |-> None, printed |-> <<>>]

\* format_dataset(call_in, flag) called directly, as the tests do.
FormatCall ==
    \E flag \in BOOLEAN :
        LET out == format_dataset(call_in, flag)
        IN  /\ call_out' = [called |-> TRUE, flag |-> flag, raised |-> out.raised,
                            ret |-> out.ret, printed |-> out.printed]
            /\ UNCHANGED <<call_in, moduleVars>>

-----------------------------------------------------------------------------
\* The data module (lines 39-110).

\* The fields the base class DataModule gives every module. The base class
\* is outside the modelled file; its defaults are taken as given.
DataModuleDefaults ==
    [mask_prompt |-> FALSE, ignore_index |-> -100, num_workers |-> 4]

\* PromptStyle.from_name: the strategy object a style name resolves to.
PromptStyle_from_name(name) == [style |-> name]

\* Python truthiness of an Optional[int].
Truthy(n) == n # None /\ n[1] # 0

\* __init__ (lines 58-62) on top of the class-level field defaults
\* (lines 44-56) and the base class's fields.
WizardLMEvolInstructV2_init(base, style, workers) ==
    [include_multiturn_conversations |-> FALSE,
     tokenizer |-> None,
     batch_size |-> 1,
     max_seq_length |-> -1,
     train_dataset |-> None,
     test_dataset |-> None,
     prompt_style |-> PromptStyle_from_name(style),
     num_workers |-> IF Truthy(workers) THEN workers[1] ELSE base.num_workers,
     inherited |-> [mask_prompt |-> base.mask_prompt,
                    ignore_index |-> base.ignore_index]]

\* The module object as a record of its fields.
Self ==
    [include_multiturn_conversations |-> include_multiturn_conversations,
     tokenizer |-> tokenizer,
     batch_size |-> batch_size,
     max_seq_length |-> max_seq_length,
     train_dataset |-> train_dataset,
     test_dataset |-> test_dataset,
     prompt_style |-> prompt_style,
     num_workers |-> num_workers,
     inherited |-> inherited]

\* The fields of the module after a call: self is the record assigned.
Assign(self) ==
    /\ include_multiturn_conversations' = self.include_multiturn_conversations
    /\ tokenizer' = self.tokenizer
    /\ batch_size' = self.batch_size
    /\ max_seq_length' = self.max_seq_length
    /\ train_dataset' = self.train_dataset
    /\ test_dataset' = self.test_dataset
    /\ prompt_style' = self.prompt_style
    /\ num_workers' = self.num_workers
    /\ inherited' = self.inherited

\* connect with max_seq_length tested for truthiness instead of for None.
connect_truthy(self, tok, batch, max_len) ==
    [self EXCEPT !.tokenizer = tok,
                 !.batch_size = batch,
                 !.max_seq_length = IF Truthy(max_len) THEN max_len[1] ELSE -1]

\* connect (lines 64-72). tok and max_len are Optional arguments.
connect(self, tok, batch, max_len) ==
    [self EXCEPT !.tokenizer = tok,
                 !.batch_size = batch,
                 !.max_seq_length = IF max_len = None THEN -1 ELSE max_len[1]]

\* prepare_data (lines 74-80): load_dataset returns one dataset per name in
\* SPLIT, read from the source at the time of the call, or raises err.
prepare_data(source, err) ==
    IF err # "none"
    THEN [raised |-> err, ret |-> None, loads |-> 1]
    ELSE [raised |-> "none",
          ret |-> Some([i \in 1..Len(SPLIT) |-> source[SPLIT[i]]]),
          loads |-> 1]

\* SFTDataset(...) as constructed at lines 89-96: the wrapper holds what it
\* was given.
SFTDataset(data, tok, style, max_len, mask_prompt, ignore_index) ==
    [data |-> data, tokenizer |-> tok, prompt_style |-> style,
     max_seq_length |-> max_len, mask_prompt |-> mask_prompt,
     ignore_index |-> ignore_index]

\* The outcome of a setup call that raised before returning: the module as
\* it is at the raise, the error, and no return value.
Raised(self, err, printed, loads, fetched) ==
    [self |-> self,
     result |-> [called |-> TRUE, raised |-> err, ret |-> None,
                 loads |-> loads, fetched |-> fetched, printed |-> printed]]

\* Variants of setup: the formatted list starts from prior instead of empty,
\* and the built dataset is also assigned to test_dataset when with_test.
setup_variant(self, source, fetch_err, wrap_err, prior, with_test) ==
    LET dataset == prepare_data(source, fetch_err)
    IN  IF dataset.raised # "none"
        THEN Raised(self, dataset.raised, <<>>, dataset.loads, None)
        ELSE
        LET train_data == format_dataset(dataset.ret[1][1],
                                         self.include_multiturn_conversations)
        IN  IF train_data.raised # "none"
            THEN Raised(self, train_data.raised, train_data.printed,
                        dataset.loads, dataset.ret)
            ELSE IF wrap_err # "none"
            THEN Raised(self, wrap_err, train_data.printed,
                        dataset.loads, dataset.ret)
            ELSE
            LET built == SFTDataset(prior \o train_data.ret[1], self.tokenizer,
                                    self.prompt_style, self.max_seq_length,
                                    self.inherited.mask_prompt,
                                    self.inherited.ignore_index)
                after == [self EXCEPT !.train_dataset = Some(built),
                                      !.test_dataset =
                                          IF with_test THEN Some(built) ELSE @]
            IN  [self |-> after,
                 result |-> [called |-> TRUE, raised |-> "none",
                             ret |-> Some([train_dataset |-> after.train_dataset,
                                           val_dataset |-> after.test_dataset,
                                           test_dataset |-> after.test_dataset]),
                             loads |-> dataset.loads,
                             fetched |-> dataset.ret,
                             printed |-> train_data.printed]]

\* setup whose formatted list outlives the call: each call appends to the
\* records of the dataset built before.
setup_accumulating(self, source, fetch_err, wrap_err) ==
    setup_variant(self, source, fetch_err, wrap_err,
                  IF self.train_dataset = None THEN <<>>
                  ELSE self.train_dataset[1].data,
                  FALSE)

\* setup with the commented-out test dataset (lines 97-104) assigned.
setup_with_test_dataset(self, source, fetch_err, wrap_err) ==
    setup_variant(self, source, fetch_err, wrap_err, <<>>, TRUE)

\* setup that clears train_dataset before it starts.
setup_clearing_first(self, source, fetch_err, wrap_err) ==
    setup_variant([self EXCEPT !.train_dataset = None],
                  source, fetch_err, wrap_err, <<>>, FALSE)

\* setup (lines 82-110). fetch_err and wrap_err are the errors the external
\* fetch and the external wrapper raise during this call ("none": no error).
setup(self, source, fetch_err, wrap_err) ==
    LET dataset == prepare_data(source, fetch_err)
    IN  IF dataset.raised # "none"
        THEN Raised(self, dataset.raised, <<>>, dataset.loads, None)
        ELSE
        LET train_data == format_dataset(dataset.ret[1][1],
                                         self.include_multiturn_conversations)
        IN  IF train_data.raised # "none"
            THEN Raised(self, train_data.raised, train_data.printed,
                        dataset.loads, dataset.ret)
            ELSE IF wrap_err # "none"
            THEN Raised(self, wrap_err, train_data.printed,
                        dataset.loads, dataset.ret)
            ELSE
            LET built == SFTDataset(train_data.ret[1], self.tokenizer,
                                    self.prompt_style, self.max_seq_length,
                                    self.inherited.mask_prompt,
                                    self.inherited.ignore_index)
                after == [self EXCEPT !.train_dataset = Some(built)]
            IN  [self |-> after,
                 result |-> [called |-> TRUE, raised |-> "none",
                             ret |-> Some([train_dataset |-> after.train_dataset,
                                           val_dataset |-> after.test_dataset,
                                           test_dataset |-> after.test_dataset]),
                             loads |-> dataset.loads,
                             fetched |-> dataset.ret,
                             printed |-> train_data.printed]]

-----------------------------------------------------------------------------
\* The inputs the module is driven with.

Turn(from, value) == [from |-> from, value |-> value]

Rows(convs) == [i \in 1..Len(convs) |-> WizardLMEvolInstructV2Row(convs, i)]

\* Contents of the external source: a well-formed row; rows with swapped
\* role labels and with later turns; a row that is too short after a
\* well-formed one.
SampleHubs ==
    {[train |-> Rows(convs)] : convs \in {
        << <<Turn("human", "a"), Turn("gpt", "b")>> >>,
        << <<Turn("gpt", "a"), Turn("human", "b")>>,
           <<Turn("human", "b"), Turn("gpt", "a"), Turn("human", "a"), Turn("gpt", "b")>> >>,
        << <<Turn("human", "b"), Turn("gpt", "a")>>,
           <<Turn("gpt", "a")>> >> }}

Tokenizers == {None, Some("tok")}

BatchSizes == {1, 4}

MaxSeqLengths == {None, Some(0), Some(512)}

StyleNames == {"chatml", "alpaca"}

WorkerCounts == {None, Some(0), Some(2)}

FetchErrors == {"none", "ConnectionError"}

WrapperErrors == {"none", "ValueError"}

NoResult == [called |-> FALSE, raised |-> "none", ret |-> None, loads |-> 0,
             fetched |-> None, printed |-> <<>>]

NoRepeat == [same_inputs |-> FALSE, first |-> None]

\* The module's fields are those of the record self.
FieldsAre(self) ==
    /\ include_multiturn_conversations = self.include_multiturn_conversations
    /\ tokenizer = self.tokenizer
    /\ batch_size = self.batch_size
    /\ max_seq_length = self.max_seq_length
    /\ train_dataset = self.train_dataset
    /\ test_dataset = self.test_dataset
    /\ prompt_style = self.prompt_style
    /\ num_workers = self.num_workers
    /\ inherited = self.inherited

\* State after construction.
Init ==
    /\ hub \in SampleHubs
    /\ \E style \in StyleNames, workers \in WorkerCounts :
        /\ FieldsAre(WizardLMEvolInstructV2_init(DataModuleDefaults, style, workers))
        /\ ctor = [prompt_style |-> style, num_workers |-> workers]
    /\ last_op = "init"
    /\ result = NoResult
    /\ repeat = NoRepeat
    /\ connected_since = FALSE
    /\ connect_args = None
    /\ call_in = <<>>
    /\ call_out = NotCalled

Connect ==
    \E tok \in Tokenizers, batch \in BatchSizes, max_len \in MaxSeqLengths :
        /\ Assign(connect(Self, tok, batch, max_len))
        /\ last_op' = "connect"
        /\ connected_since' = TRUE
        /\ connect_args' = Some([tokenizer |-> tok, batch_size |-> batch,
                                 max_seq_length |-> max_len])
        /\ UNCHANGED <<hub, ctor, result, repeat, call_in, call_out>>

\* A direct prepare_data call: the module keeps nothing of what it returns.
PrepareData ==
    \E err \in FetchErrors :
        LET out == prepare_data(hub, err)
        IN  /\ out.loads = 1
            /\ last_op' = "prepare_data"
            /\ UNCHANGED <<fields, hub, ctor, result, repeat, connected_since,
                           connect_args, call_in, call_out>>

\* How a setup call that ended as now relates to the call before it, which
\* ended as before: whether both returned and were given the same rows with
\* no connect in between, and then the dataset the earlier call returned.
Repeat(before, now, connected) ==
    LET same == /\ before.called
                /\ before.raised = "none"
                /\ now.raised = "none"
                /\ before.fetched = now.fetched
                /\ ~connected
    IN  [same_inputs |-> same,
         first |-> IF same THEN before.ret[1].train_dataset ELSE None]

Setup ==
    \E fetch_err \in FetchErrors, wrap_err \in WrapperErrors :
        LET out == setup(Self, hub, fetch_err, wrap_err)
        IN  /\ Assign(out.self)
            /\ result' = out.result
            /\ repeat' = Repeat(result, out.result, connected_since)
            /\ last_op' = "setup"
            /\ connected_since' = FALSE
            /\ UNCHANGED <<hub, ctor, connect_args, call_in, call_out>>

\* include_multiturn_conversations is a public field (line 44) that the
\* constructor does not take: callers set it by assignment.
SetIncludeMultiturn ==
    \E flag \in BOOLEAN :
        /\ flag # include_multiturn_conversations
        /\ Assign([Self EXCEPT !.include_multiturn_conversations = flag])
        /\ last_op' = "set_flag"
        /\ UNCHANGED <<hub, ctor, result, repeat, connected_since, connect_args,
                       call_in, call_out>>

\* The external source is republished with other rows.
UpstreamChange ==
    /\ hub' \in SampleHubs \ {hub}
    /\ last_op' = "upstream"
    /\ UNCHANGED <<fields, ctor, result, repeat, connected_since, connect_args,
                   call_in, call_out>>

Next ==
    \/ Connect
    \/ PrepareData
    \/ Setup
    \/ SetIncludeMultiturn
    \/ UpstreamChange

Spec == Init /\ [][Next]_vars

\* The formatter alone: one dataset within the bounds, formatted by direct
\* calls; the module stays as constructed with the defaults.
FormatInit ==
    /\ \E ls \in RowLengths :
        \E flat \in [1..SumSeq(ls) -> Turns] : call_in = DatasetOf(ls, flat)
    /\ call_out = NotCalled
    /\ hub = [train |-> <<>>]
    /\ FieldsAre(WizardLMEvolInstructV2_init(DataModuleDefaults, "chatml", None))
    /\ ctor = [prompt_style |-> "chatml", num_workers |-> None]
    /\ last_op = "init"
    /\ result = NoResult
    /\ repeat = NoRepeat
    /\ connected_since = FALSE
    /\ connect_args = None

FormatNext == FormatCall

FormatSpec == FormatInit /\ [][FormatNext]_vars

-----------------------------------------------------------------------------
\* Properties of format_dataset, checked under FormatSpec.

\* Every row of the argument of the direct call has at least two turns.
AllRowsHaveTwoTurns ==
    \A i \in DOMAIN call_in : Len(call_in[i].conversations) >= 2

\* The number of role-label mismatches among the first two turns of a row.
Mismatches(row) ==
    (IF row.conversations[1].from # "human" THEN 1 ELSE 0)
    + (IF row.conversations[2].from # "gpt" THEN 1 ELSE 0)

\* C1: when every row has at least two turns, record i is exactly
\* {instruction: value of turn 0 of row i, input: "", output: value of turn 1
\* of row i}, whatever the later turns and the role labels are.
C1_RecordFromFirstTwoValues ==
    (call_out.called /\ AllRowsHaveTwoTurns) =>
        /\ call_out.ret # None
        /\ \A i \in DOMAIN call_in :
            /\ i \in DOMAIN call_out.ret[1]
            /\ call_out.ret[1][i] =
                   [instruction |-> call_in[i].conversations[1].value,
                    input |-> "",
                    output |-> call_in[i].conversations[2].value]

\* A returned call on a row with a later turn whose value differs from that
\* of the second turn, and with mismatched role labels.
C1_Witness ==
    /\ call_out.called
    /\ call_out.ret # None
    /\ \E i \in DOMAIN call_in :
        /\ Len(call_in[i].conversations) = 3
        /\ call_in[i].conversations[3].value # call_in[i].conversations[2].value
        /\ call_in[i].conversations[1].from = "gpt"

\* C2: when every row has at least two turns, the result has as many records
\* as the input has rows, in the input's order, and the empty input gives the
\* empty result.
C2_SameLengthSameOrder ==
    (call_out.called /\ AllRowsHaveTwoTurns) =>
        /\ call_out.ret # None
        /\ Len(call_out.ret[1]) = Len(call_in)
        /\ \A i \in 1..Len(call_out.ret[1]) :
            /\ call_out.ret[1][i].instruction = call_in[i].conversations[1].value
            /\ call_out.ret[1][i].output = call_in[i].conversations[2].value
        /\ (call_in = <<>> => call_out.ret[1] = <<>>)

\* A returned call on two rows that differ, the first with mismatched labels.
C2_Witness ==
    /\ call_out.called
    /\ call_out.ret # None
    /\ Len(call_in) = 2
    /\ call_in[1].conversations[1].value # call_in[2].conversations[1].value
    /\ call_in[1].conversations[1].from # "human"
    /\ call_in[2].conversations[1].from = "human"

\* C3: when every row has at least two turns, the call does not raise, every
\* row yields its record, and the warnings printed for a row are as many as
\* the mismatches among its first two turns, each naming the row's idx and
\* the role that was read.
C3_MismatchOnlyWarns ==
    (call_out.called /\ AllRowsHaveTwoTurns) =>
        /\ call_out.raised = "none"
        /\ call_out.ret # None
        /\ Len(call_out.ret[1]) = Len(call_in)
        /\ \A k \in DOMAIN call_out.printed :
               \E i \in DOMAIN call_in : call_out.printed[k].idx = call_in[i].idx
        /\ \A i \in DOMAIN call_in :
            LET row == call_in[i]
                mine == {k \in DOMAIN call_out.printed :
                            call_out.printed[k].idx = row.idx}
            IN  /\ Cardinality(mine) = Mismatches(row)
                /\ \A k \in mine :
                    \/ /\ call_out.printed[k].expected = "user"
                       /\ row.conversations[1].from # "human"
                       /\ call_out.printed[k].observed = row.conversations[1].from
                    \/ /\ call_out.printed[k].expected = "assistant"
                       /\ row.conversations[2].from # "gpt"
                       /\ call_out.printed[k].observed = row.conversations[2].from
                /\ (Mismatches(row) = 2 =>
                        \E k1, k2 \in mine :
                            /\ call_out.printed[k1].expected = "user"
                            /\ call_out.printed[k2].expected = "assistant")

\* A returned call on a row with both labels mismatched and a row with one.
C3_Witness ==
    /\ call_out.called
    /\ AllRowsHaveTwoTurns
    /\ Len(call_in) = 2
    /\ Mismatches(call_in[1]) = 1
    /\ Mismatches(call_in[2]) = 2
    /\ Len(call_out.printed) = 3

\* C4: when some row has fewer than two turns, the call ends with an index
\* error and returns nothing, wherever the short row is.
C4_ShortRowRaises ==
    (call_out.called /\ ~AllRowsHaveTwoTurns) =>
        /\ call_out.raised = "IndexError"
        /\ call_out.ret = None

\* A call that raised on a one-turn row that follows a well-formed row.
C4_Witness ==
    /\ call_out.called
    /\ Len(call_in) = 2
    /\ Len(call_in[1].conversations) = 2
    /\ Len(call_in[2].conversations) = 1
    /\ call_out.raised = "IndexError"

-----------------------------------------------------------------------------
\* Properties of the data module, checked under Spec.

SetupReturned == result.called /\ result.raised = "none"

C6_SetupRepeatable ==
    last_op = "setup" =>
        /\ result.loads = 1
        /\ (result.fetched # None => result.fetched = Some(<<hub.train>>))
        /\ (SetupReturned => train_dataset = result.ret[1].train_dataset)
        /\ (repeat.same_inputs =>
                /\ result.ret[1].train_dataset = repeat.first
                /\ train_dataset = repeat.first)

\* A second setup call on the same rows, with records and warnings.
C6_Witness ==
    /\ last_op = "setup"
    /\ repeat.same_inputs
    /\ result.printed # <<>>
    /\ train_dataset # None
    /\ train_dataset[1].data # <<>>

\* C7: every bundle setup returns has exactly the keys train_dataset,
\* val_dataset and test_dataset, with val_dataset and test_dataset null and
\* train_dataset the dataset this call built from the first split; the
\* module's test_dataset is never anything but null.
C7_BundleShape ==
    /\ test_dataset = None
    /\ (SetupReturned =>
            LET bundle == result.ret[1]
            IN  /\ DOMAIN bundle = {"train_dataset", "val_dataset", "test_dataset"}
                /\ bundle.val_dataset = None
                /\ bundle.test_dataset = None
                /\ bundle.train_dataset # None
                /\ Len(result.fetched[1]) = 1
                /\ Len(bundle.train_dataset[1].data) = Len(result.fetched[1][1])
                /\ \A i \in DOMAIN bundle.train_dataset[1].data :
                       bundle.train_dataset[1].data[i].instruction =
                           result.fetched[1][1][i].conversations[1].value)

\* A setup call that returned a bundle with records.
C7_Witness ==
    /\ last_op = "setup"
    /\ SetupReturned
    /\ result.ret[1].train_dataset[1].data # <<>>

\* The max_seq_length a connect call with argument max_len stores.
StoredMaxSeqLength(max_len) == IF max_len = None THEN -1 ELSE max_len[1]

\* What the most recent connect call gave, or the defaults if none ran.
ConnectedTokenizer ==
    IF connect_args = None THEN None ELSE connect_args[1].tokenizer

ConnectedMaxSeqLength ==
    IF connect_args = None THEN -1
    ELSE StoredMaxSeqLength(connect_args[1].max_seq_length)

C8_FieldsFollowConnect ==
    /\ tokenizer = ConnectedTokenizer
    /\ max_seq_length = ConnectedMaxSeqLength
    /\ (connect_args # None => batch_size = connect_args[1].batch_size)
    /\ ((last_op = "setup" /\ SetupReturned) =>
            /\ train_dataset[1].tokenizer = ConnectedTokenizer
            /\ train_dataset[1].max_seq_length = ConnectedMaxSeqLength)

C8_ConnectChangesOnlyItsFields ==
    (last_op' = "connect") =>
        UNCHANGED <<include_multiturn_conversations, train_dataset, test_dataset,
                    prompt_style, num_workers, inherited>>

\* C8: the dataset setup builds carries the tokenizer and max_seq_length of
\* the most recent connect call, max_seq_length being -1 when that call gave
\* none and the given value otherwise (null and -1 before any connect); and
\* connect changes nothing but tokenizer, batch_size and max_seq_length.
C8_DatasetUsesLastConnect ==
    []C8_FieldsFollowConnect /\ [][C8_ConnectChangesOnlyItsFields]_vars

\* A dataset built after a connect that gave a tokenizer and max_seq_length 0.
C8_Witness ==
    /\ last_op = "setup"
    /\ SetupReturned
    /\ connect_args # None
    /\ connect_args[1].max_seq_length = Some(0)
    /\ connect_args[1].tokenizer # None
    /\ train_dataset[1].max_seq_length = 0

\* C9: num_workers is the count given to the constructor, for every count
\* including 0, and the base default when none is given.
C9_WorkerCountOverride ==
    /\ (ctor.num_workers # None => num_workers = ctor.num_workers[1])
    /\ (ctor.num_workers = None => num_workers = DataModuleDefaults.num_workers)

C10_FailedSetupStep ==
    (last_op' = "setup" /\ result'.raised # "none") =>
        /\ result'.ret = None
        /\ result'.raised \in (FetchErrors \cup WrapperErrors \cup {"IndexError"})
        /\ (result'.fetched = None => result'.raised \in FetchErrors)
        /\ (result'.fetched # None =>
                LET formatted == format_dataset(result'.fetched[1][1], FALSE)
                IN  IF formatted.raised # "none"
                    THEN result'.raised = formatted.raised
                    ELSE result'.raised \in WrapperErrors)
        /\ UNCHANGED fields

\* C10: a setup call that raises returns no bundle, raises the error of the
\* step that failed, and leaves every field of the module as it was.
C10_FailedSetupChangesNothing == [][C10_FailedSetupStep]_vars

\* A setup call that raised on a short row after an earlier call had built a
\* dataset under another configuration.
C10_Witness ==
    /\ last_op = "setup"
    /\ result.raised = "IndexError"
    /\ train_dataset # None
    /\ tokenizer # None

====
